---- MODULE Spec2Model ----
(***************************************************************************)
(* TrustWeb3Provider (src/src/index.js): the in-page provider that         *)
(* registers every call in the _promises table, answers some calls         *)
(* locally, posts others to the host application and forwards the rest to  *)
(* the RPC server or the filter manager.                                   *)
(*                                                                         *)
(* JavaScript values are records tagged by "type"; a property that an      *)
(* object does not carry reads as Undefined.  Strings are TLA+ strings.    *)
(***************************************************************************)
EXTENDS Integers, Sequences, FiniteSets, TLC

VARIABLES chainId, address, ready, rpcGen, promises, calls, settled,
          inflight, hostPending, cbs, lastOp

vars == <<chainId, address, ready, rpcGen, promises, calls, settled,
          inflight, hostPending, cbs, lastOp>>

(* ------------------------------ bounds -------------------------------- *)

\* calls that pass validation and are registered in _promises
MaxCalls == 2
\* setConfig invocations, each building a new RPCServer and FilterMgr
MaxConfigs == 1

(* --------------------------- JavaScript values ------------------------ *)

Undefined == [type |-> "undefined"]
Null == [type |-> "null"]
Str(s) == [type |-> "string", str |-> s]
Num(n) == [type |-> "number", num |-> n]
Bool(b) == [type |-> "boolean", bool |-> b]
Arr(items) == [type |-> "array", items |-> items]
\* a JSON-RPC shaped object {jsonrpc, id, result}; an absent property is Undefined
Obj(j, i, r) == [type |-> "object", jsonrpc |-> j, id |-> i, result |-> r]
\* new Error(message)
Err(m) == [type |-> "error", message |-> m]
TypeError == [type |-> "error", message |-> "TypeError"]

\* typeof v === "object"
TypeofObject(v) == v.type \in {"null", "object", "array", "error"}

\* typeof v === "string"
TypeofString(v) == v.type = "string"

\* v instanceof Array
InstanceofArray(v) == v.type = "array"

\* v instanceof Error
InstanceofError(v) == v.type = "error"

\* ToBoolean(v): what !v, !!v, v || w and if (v) test
Truthy(v) ==
    CASE v.type = "undefined" -> FALSE
      [] v.type = "null" -> FALSE
      [] v.type = "string" -> v.str # ""
      [] v.type = "number" -> v.num # 0
      [] v.type = "boolean" -> v.bool
      [] OTHER -> TRUE

\* v.jsonrpc and v.result of a non-null value
PropJsonrpc(v) == IF "jsonrpc" \in DOMAIN v THEN v.jsonrpc ELSE Undefined
PropResult(v) == IF "result" \in DOMAIN v THEN v.result ELSE Undefined

\* params[i] of an array (0-based), undefined past its end
Index(a, i) == IF i + 1 \in 1..Len(a.items) THEN a.items[i + 1] ELSE Undefined

(* ------------------------------ strings ------------------------------- *)

UpperChars == <<"A", "B", "C", "D", "E", "F", "X">>
LowerChars == <<"a", "b", "c", "d", "e", "f", "x">>

\* one character of String.prototype.toLowerCase
LowerChar(c) ==
    IF \E i \in 1..Len(UpperChars) : UpperChars[i] = c
    THEN LowerChars[CHOOSE i \in 1..Len(UpperChars) : UpperChars[i] = c]
    ELSE c

RECURSIVE ToLowerCase(_)
\* String.prototype.toLowerCase
ToLowerCase(s) ==
    IF s = "" THEN ""
    ELSE LowerChar(SubSeq(s, 1, 1)) \o ToLowerCase(SubSeq(s, 2, Len(s)))

Digits == <<"0", "1", "2", "3", "4", "5", "6", "7", "8", "9",
            "a", "b", "c", "d", "e", "f">>

RECURSIVE NumToString(_, _)
\* Number.prototype.toString(radix) of a non-negative integer
NumToString(n, radix) ==
    IF n < radix THEN Digits[n + 1]
    ELSE NumToString(n \div radix, radix) \o Digits[(n % radix) + 1]

RECURSIVE JsString(_)
RECURSIVE Join(_)
\* Array.prototype.join(",") of the items: undefined and null items give the
\* empty string, every other item its String
Join(items) ==
    IF items = <<>> THEN ""
    ELSE LET first == IF Head(items).type \in {"undefined", "null"} THEN ""
                      ELSE JsString(Head(items))
         IN  IF Len(items) = 1 THEN first
             ELSE first \o "," \o Join(Tail(items))

\* String(v), the message new Error(v) carries; for an Error, its name alone
\* when the message is empty
JsString(v) ==
    CASE v.type = "undefined" -> ""
      [] v.type = "null" -> "null"
      [] v.type = "string" -> v.str
      [] v.type = "number" -> NumToString(v.num, 10)
      [] v.type = "boolean" -> IF v.bool THEN "true" ELSE "false"
      [] v.type = "error" ->
            IF v.message = "" THEN "Error" ELSE "Error: " \o v.message
      [] v.type = "array" -> Join(v.items)
      [] OTHER -> "[object Object]"

(* ------------------------------ inputs -------------------------------- *)

\* config.address / the argument of setAddress: absent, empty or a string
AddressArgs == {Undefined, Str(""), Str("0xAbC")}

\* config.chainId: absent or a number
ChainIdArgs == {Undefined, Num(0), Num(1), Num(56)}

Configs == [address : AddressArgs, chainId : ChainIdArgs]


\* method argument of send: names of every switch case, names the switch
\* does not know, and values that are not non-empty strings
LocalMethods == {"eth_accounts", "eth_coinbase", "net_version", "eth_chainId"}
BridgeMethods == {"eth_sign", "personal_sign", "personal_ecRecover",
                  "eth_signTypedData", "eth_signTypedData_v3",
                  "eth_sendTransaction", "eth_requestAccounts"}
FilterMethods == {"eth_newFilter", "eth_newBlockFilter",
                  "eth_newPendingTransactionFilter", "eth_uninstallFilter",
                  "eth_getFilterChanges", "eth_getFilterLogs"}
OtherMethods == {"eth_blockNumber", "eth_foo"}
MethodNames == LocalMethods \cup BridgeMethods \cup FilterMethods \cup OtherMethods
MethodArgs == {Str(m) : m \in MethodNames} \cup {Str(""), Num(123), Undefined}

\* params argument of send
ParamsArgs == {Arr(<<>>), Arr(<<Str("0xp0"), Str("0xp1")>>), Str("not-an-array")}

\* id argument of send: absent, 0, or a caller's identifier
SuppliedIds == {1}
IdArgs == {Undefined, Num(0)} \cup {Num(i) : i \in SuppliedIds}

\* identifiers Utils.genId can hand out
GenIds == {100 + i : i \in 1..MaxCalls}

\* what the RPC server or the filter manager answers with
CollabResults(id) == {Str("0xdata"), Null,
                      Obj(Str("2.0"), Num(id), Str("0xdata")),
                      Obj(Str("2.0"), Num(id), Bool(FALSE))}
CollabErrors == {Err("rpc failed"), Str("timeout")}

\* what the host application answers with
HostResults == {Str("0xsig"), Null}
HostErrors == {Err("cancelled"), Str("cancelled")}

\* what sendAsync is called with: one request, or an array of requests
Request(method, params, id) ==
    [type |-> "object", method |-> method, params |-> params, id |-> id]
AsyncMethodArgs == {Str("eth_accounts"), Str("eth_sign"), Str("eth_foo"), Num(123)}
AsyncParamsArgs == {Arr(<<>>), Str("not-an-array")}
AsyncIdArgs == {Undefined, Num(1)}
Requests == {Request(m, p, i) :
                m \in AsyncMethodArgs, p \in AsyncParamsArgs, i \in AsyncIdArgs}
Batches == {Arr(<<>>),
            Arr(<<Request(Str("eth_accounts"), Arr(<<>>), Undefined)>>),
            Arr(<<Request(Str("eth_accounts"), Arr(<<>>), Num(1)),
                  Request(Str("eth_foo"), Arr(<<>>), Undefined)>>)}
\* what a callback raises when it does not return
CallbackThrows == {Err("callback failed"), Str("callback failed")}

(* --------------------------- the pending table ------------------------ *)

\* this._promises[id] = { resolve, reject } of call c
Register(P, id, c) == [k \in DOMAIN P \cup {id} |-> IF k = id THEN c ELSE P[k]]

\* this._promises = {} in place of delete this._promises[id]
DeleteAll(P, id) == [k \in {} |-> 0]

\* delete this._promises[id]
Delete(P, id) == [k \in DOMAIN P \ {id} |-> P[k]]

\* the envelope _resolve builds around a non-null result
Unwraps(result) ==
    /\ TypeofObject(result)
    /\ Truthy(PropJsonrpc(result))
    /\ Truthy(PropResult(result))

ResolveData(id, result) ==
    Obj(Str("2.0"), Num(id), IF Unwraps(result) THEN result.result ELSE result)

\* nothing was settled and nothing thrown
NoSettle(P) == [threw |-> FALSE, promises |-> P, call |-> 0, kind |-> "none",
                value |-> Undefined]

\* a TypeError left the function before it touched the table
Thrown(P) == [NoSettle(P) EXCEPT !.threw = TRUE]

\* _resolve(id, result) on table P: reading .jsonrpc of null throws, and so
\* does destructuring the entry of an identifier the table does not hold
Resolve(P, id, result) ==
    IF result.type = "null" THEN Thrown(P)
    ELSE IF id \notin DOMAIN P THEN Thrown(P)
    ELSE [threw |-> FALSE, promises |-> Delete(P, id), call |-> P[id],
          kind |-> "resolve", value |-> ResolveData(id, result)]

\* the value _reject hands to the reject continuation
RejectValue(error) == IF InstanceofError(error) THEN error ELSE Err(JsString(error))

\* _reject(id, error) on table P
Reject(P, id, error) ==
    IF id \notin DOMAIN P THEN Thrown(P)
    ELSE [threw |-> FALSE, promises |-> Delete(P, id), call |-> P[id],
          kind |-> "reject", value |-> RejectValue(error)]

\* settled, with the continuation of call c invoked once more
Invoke(S, c) == IF c = 0 THEN S ELSE [S EXCEPT ![c] = @ + 1]

(* ------------------------- internal RPC handlers ---------------------- *)

\* a handler's return value, or the TypeError it raised
Returns(v) == [threw |-> FALSE, value |-> v]
Raises == [threw |-> TRUE, value |-> Undefined]

eth_accounts == Returns(IF address # "" THEN Arr(<<Str(address)>>) ELSE Arr(<<>>))

eth_coinbase == Returns(Str(address))

\* this.chainId.toString(10) || null
net_version ==
    IF chainId.type # "number" THEN Raises
    ELSE LET s == NumToString(chainId.num, 10)
         IN  Returns(IF s # "" THEN Str(s) ELSE Null)

\* "0x" + this.chainId.toString(16)
eth_chainId ==
    IF chainId.type # "number" THEN Raises
    ELSE Returns(Str("0x" \o NumToString(chainId.num, 16)))

LocalAnswer(m) ==
    CASE m = "eth_accounts" -> eth_accounts
      [] m = "eth_coinbase" -> eth_coinbase
      [] m = "net_version" -> net_version
      [] m = "eth_chainId" -> eth_chainId

\* the handler name each bridge method posts under
Handler(m) ==
    CASE m = "eth_sign" -> "signMessage"
      [] m = "personal_sign" -> "signPersonalMessage"
      [] m = "personal_ecRecover" -> "ecRecover"
      [] m \in {"eth_signTypedData", "eth_signTypedData_v3"} -> "signTypedMessage"
      [] m = "eth_sendTransaction" -> "signTransaction"
      [] m = "eth_requestAccounts" -> "requestAccounts"

\* the object each bridge method posts
BridgeObject(m, params) ==
    CASE m = "eth_sign" -> [type |-> "object", data |-> Index(params, 1)]
      [] m = "personal_sign" -> [type |-> "object", data |-> Index(params, 0)]
      [] m = "personal_ecRecover" ->
            [type |-> "object", signature |-> Index(params, 1),
             message |-> Index(params, 0)]
      [] m \in {"eth_signTypedData", "eth_signTypedData_v3"} ->
            [type |-> "object", data |-> Index(params, 1)]
      [] m = "eth_sendTransaction" -> Index(params, 0)
      [] m = "eth_requestAccounts" -> [type |-> "object"]

\* the filter manager operation each filter method calls
FilterOp(m) ==
    CASE m = "eth_newFilter" -> "newFilter"
      [] m = "eth_newBlockFilter" -> "newBlockFilter"
      [] m = "eth_newPendingTransactionFilter" -> "newPendingTransactionFilter"
      [] m = "eth_uninstallFilter" -> "uninstallFilter"
      [] m = "eth_getFilterChanges" -> "getFilterChanges"
      [] m = "eth_getFilterLogs" -> "getFilterLogs"

\* postMessage without its gate
DeliversUngated(handler) == TRUE

\* postMessage delivers to the host
Delivers(handler) == ready \/ handler = "requestAccounts"

(* ------------------------------- state -------------------------------- *)
\* chainId, address, ready : the provider's fields
\* rpcGen       : which RPCServer / FilterMgr pair this._rpc, this._filterMgr are
\* promises     : this._promises, identifier -> the call whose continuations it holds
\* calls        : the calls send registered, in order
\* settled      : per call, how often one of its continuations was invoked
\* inflight     : requests the RPC server or a filter manager has not answered,
\*                and .then handlers that threw with their .catch still to run
\* hostPending  : messages posted to the host and not answered yet
\* cbs          : per sendAsync, the callback it was given: the call whose
\*                promise the callback's handlers hang on, which handler
\*                is to run next, with what, and how often the callback ran
\* lastOp       : the last entry point that ran: the address argument of a
\*                (re)configuration, the arguments of a send, and
\*                what the entry point returned, raised, invoked, handed to
\*                this.postMessage, posted, forwarded and emitted

NoOp(op) == [op |-> op, arg |-> Undefined, method |-> Undefined,
             params |-> Undefined, argId |-> Undefined, returned |-> "none", error |-> Undefined,
             threw |-> FALSE, settledCall |-> 0, kind |-> "none",
             value |-> Undefined, bridged |-> <<>>, posted |-> <<>>,
             forwarded |-> <<>>, emitted |-> <<>>, cb |-> 0]

\* (address || "") without toLowerCase()
NormalizeAddressKeepCase(a) == IF Truthy(a) THEN a.str ELSE ""

\* (address || "").toLowerCase()
NormalizeAddress(a) == ToLowerCase(IF Truthy(a) THEN a.str ELSE "")

\* address !== undefined in place of !!address
ReadyOfDefined(a) == a.type # "undefined"

\* !!address
ReadyOf(a) == Truthy(a)

Event(name, payload) == [event |-> name, payload |-> payload]

\* constructor(config)
constructor(config) ==
    /\ chainId = config.chainId
    /\ address = NormalizeAddress(config.address)
    /\ ready = ReadyOf(config.address)
    /\ rpcGen = 0
    /\ promises = [k \in {} |-> 0]
    /\ calls = <<>>
    /\ settled = <<>>
    /\ inflight = {}
    /\ hostPending = {}
    /\ cbs = <<>>
    /\ lastOp = [NoOp("constructor") EXCEPT
                    !.arg = config.address,
                    !.emitted = <<Event("connect", Undefined)>>]

\* setAddress(address)
setAddress(a) ==
    /\ address' = NormalizeAddress(a)
    /\ ready' = ReadyOf(a)
    /\ lastOp' = [NoOp("setAddress") EXCEPT
                    !.arg = a,
                    !.emitted = <<Event("accountsChanged", Arr(<<Str(address')>>))>>]
    /\ UNCHANGED <<chainId, rpcGen, promises, calls, settled, inflight, hostPending,
                   cbs>>

\* setConfig(config) that also starts a fresh this._promises
setConfigClearing(config) ==
    /\ rpcGen < MaxConfigs
    /\ address' = NormalizeAddress(config.address)
    /\ ready' = ReadyOf(config.address)
    /\ chainId' = config.chainId
    /\ rpcGen' = rpcGen + 1
    /\ promises' = [k \in {} |-> 0]
    /\ lastOp' = [NoOp("setConfig") EXCEPT
                    !.arg = config.address,
                    !.emitted = <<Event("accountsChanged", Arr(<<Str(address')>>)),
                                  Event("networkChanged", chainId')>>]
    /\ UNCHANGED <<calls, settled, inflight, hostPending, cbs>>

\* setConfig(config)
setConfig(config) ==
    /\ rpcGen < MaxConfigs
    /\ address' = NormalizeAddress(config.address)
    /\ ready' = ReadyOf(config.address)
    /\ chainId' = config.chainId
    /\ rpcGen' = rpcGen + 1
    /\ lastOp' = [NoOp("setConfig") EXCEPT
                    !.arg = config.address,
                    !.emitted = <<Event("accountsChanged", Arr(<<Str(address')>>)),
                                  Event("networkChanged", chainId')>>]
    /\ UNCHANGED <<promises, calls, settled, inflight, hostPending, cbs>>

(* -------------------------------- send -------------------------------- *)

\* the strategy the switch selects
Via(m) ==
    CASE m \in LocalMethods -> "local"
      [] m \in BridgeMethods -> "bridge"
      [] m \in FilterMethods -> "filter"
      [] OTHER -> "rpc"

\* Utils.genId(): an identifier no call was registered under before
genId == 100 + 1 + Cardinality({c \in 1..Len(calls) : calls[c].id \in GenIds})

\* payload.id: the caller's identifier, or a generated one when !id
PayloadId(id) == IF ~Truthy(id) THEN genId ELSE id.num

\* send returns early with an Error value
ValidationError(method, params) ==
    IF ~Truthy(method) \/ ~TypeofString(method)
    THEN Err("Method is not a valid string.")
    ELSE IF ~InstanceofArray(params)
    THEN Err("Params is not a valid array.")
    ELSE Undefined

\* const payload = { jsonrpc, id, method, params }
Payload(id, m, params) ==
    [type |-> "object", jsonrpc |-> Str("2.0"), id |-> Num(id), method |-> Str(m),
     params |-> params]

\* the arguments each filter method hands to the filter manager: the payload
\* for newFilter, nothing for the two other new...Filter operations, and
\* params[0] for the rest
FilterArgs(id, m, params) ==
    CASE m = "eth_newFilter" -> <<Payload(id, m, params)>>
      [] m \in {"eth_newBlockFilter", "eth_newPendingTransactionFilter"} -> <<>>
      [] m \in {"eth_uninstallFilter", "eth_getFilterChanges", "eth_getFilterLogs"} ->
            <<Index(params, 0)>>

\* what the switch does for payload {id, method, params}, after the call's
\* continuations were stored in table P
Dispatch(P, id, m, params) ==
    LET base == [out |-> NoSettle(P), bridged |-> <<>>, posted |-> <<>>,
                 forwarded |-> <<>>]
        call == <<[handler |-> Handler(m), id |-> id]>>
    IN
    CASE Via(m) = "local" ->
            LET a == LocalAnswer(m) IN
            IF a.threw THEN [base EXCEPT !.out = Thrown(P)]
            ELSE [base EXCEPT !.out = Resolve(P, id, a.value)]
      [] Via(m) = "bridge" ->
            IF Delivers(Handler(m))
            THEN [base EXCEPT !.bridged = call, !.posted =
                    <<[name |-> Handler(m), object |-> BridgeObject(m, params),
                       id |-> id]>>]
            ELSE [base EXCEPT !.bridged = call,
                              !.out = Reject(P, id, Err("provider is not ready"))]
      [] Via(m) = "filter" ->
            [base EXCEPT !.forwarded =
                <<[to |-> "filter", op |-> FilterOp(m), gen |-> rpcGen,
                   args |-> FilterArgs(id, m, params)]>>]
      [] OTHER ->
            [base EXCEPT !.forwarded =
                <<[to |-> "rpc", op |-> "call", gen |-> rpcGen,
                   args |-> <<Payload(id, m, params)>>]>>]

\* send(method, params, id) that validates after it stored the continuations
sendInvalidRegistered(method, params, id) ==
    /\ ValidationError(method, params) # Undefined
    /\ Len(calls) < MaxCalls
    /\ promises' = Register(promises, PayloadId(id), Len(calls) + 1)
    /\ calls' = Append(calls, [id |-> PayloadId(id), returned |-> FALSE])
    /\ settled' = Append(settled, 0)
    /\ lastOp' = [NoOp("send") EXCEPT
                    !.method = method, !.params = params, !.argId = id,
                    !.returned = "error",
                    !.error = ValidationError(method, params)]
    /\ UNCHANGED <<chainId, address, ready, rpcGen, inflight, hostPending, cbs>>

\* send(method, params, id) stopped by validation
sendInvalid(method, params, id) ==
    /\ ValidationError(method, params) # Undefined
    /\ lastOp' = [NoOp("send") EXCEPT
                    !.method = method, !.params = params, !.argId = id,
                    !.returned = "error",
                    !.error = ValidationError(method, params)]
    /\ UNCHANGED <<chainId, address, ready, rpcGen, promises, calls, settled,
                   inflight, hostPending, cbs>>

\* the body of send for a well-formed request, entered through op
sendCore(method, params, id, op) ==
    /\ ValidationError(method, params) = Undefined
    /\ Len(calls) < MaxCalls
    /\ LET c == Len(calls) + 1
           pid == PayloadId(id)
           m == method.str
           d == Dispatch(Register(promises, pid, c), pid, m, params)
       IN  /\ promises' = d.out.promises
           /\ calls' = Append(calls, [id |-> pid, returned |-> ~d.out.threw])
           /\ settled' = Invoke(Append(settled, 0), d.out.call)
           /\ inflight' = inflight \cup
                   {[call |-> c, id |-> pid, gen |-> rpcGen, stage |-> "sent"]
                       : i \in 1..Len(d.forwarded)}
           /\ hostPending' = hostPending \cup
                   {[call |-> c, id |-> pid] : i \in 1..Len(d.posted)}
           /\ lastOp' = [NoOp(op) EXCEPT
                           !.method = method, !.params = params, !.argId = id,
                           !.returned = IF d.out.threw THEN "throw" ELSE "promise",
                           !.threw = d.out.threw,
                           !.settledCall = d.out.call, !.kind = d.out.kind,
                           !.value = d.out.value, !.bridged = d.bridged,
                           !.posted = d.posted, !.forwarded = d.forwarded]
    /\ UNCHANGED <<chainId, address, ready, rpcGen>>

\* send(method, params, id) of a well-formed request
send(method, params, id) ==
    /\ sendCore(method, params, id, "send")
    /\ UNCHANGED cbs

(* ------------------------------ sendAsync ----------------------------- *)

\* v[name] of a non-null value
Prop(v, name) == IF name \in DOMAIN v THEN v[name] ELSE Undefined

\* a callback that no handler holds: sendAsync raised before .then(...)
Dropped == [call |-> 0, stage |-> "dropped", arg |-> Undefined, n |-> 0]

\* .then(data => callback(null, data)).catch(error => callback(..., null))
\* on the promise of call c, which out may have settled already
Attach(c, out) ==
    [call |-> c,
     stage |-> IF out.call # c THEN "pending"
               ELSE IF out.kind = "resolve" THEN "then" ELSE "catch",
     arg |-> IF out.call # c THEN Undefined ELSE out.value,
     n |-> 0]

\* the promise of call out.call was settled: the handlers hanging on it are
\* queued with the value it was settled with
Settle(C, out) ==
    [i \in DOMAIN C |->
        IF C[i].stage = "pending" /\ C[i].call = out.call
        THEN [C[i] EXCEPT !.stage = IF out.kind = "resolve" THEN "then" ELSE "catch",
                          !.arg = out.value]
        ELSE C[i]]

\* sendAsync(payload, callback) with an array: this.send(payload.method, ...)
\* is stopped by validation, and payload.map(...) of the Error it returned
\* raises a TypeError
sendAsyncBatch(payload) ==
    /\ InstanceofArray(payload)
    /\ Len(cbs) < MaxCalls
    /\ ValidationError(Prop(payload, "method"), Prop(payload, "params")) # Undefined
    /\ cbs' = Append(cbs, Dropped)
    /\ lastOp' = [NoOp("sendAsync") EXCEPT
                    !.arg = payload,
                    !.method = Prop(payload, "method"),
                    !.params = Prop(payload, "params"),
                    !.argId = Prop(payload, "id"),
                    !.returned = "throw", !.threw = TRUE,
                    !.error = ValidationError(Prop(payload, "method"),
                                              Prop(payload, "params"))]
    /\ UNCHANGED <<chainId, address, ready, rpcGen, promises, calls, settled,
                   inflight, hostPending>>

\* sendAsync(payload, callback) with one malformed request: send returns an
\* Error, and calling .then of it raises a TypeError
sendAsyncInvalid(payload) ==
    /\ ~InstanceofArray(payload)
    /\ Len(cbs) < MaxCalls
    /\ ValidationError(payload.method, payload.params) # Undefined
    /\ cbs' = Append(cbs, Dropped)
    /\ lastOp' = [NoOp("sendAsync") EXCEPT
                    !.method = payload.method, !.params = payload.params,
                    !.argId = payload.id,
                    !.returned = "throw", !.threw = TRUE,
                    !.error = ValidationError(payload.method, payload.params)]
    /\ UNCHANGED <<chainId, address, ready, rpcGen, promises, calls, settled,
                   inflight, hostPending>>

\* sendAsync(payload, callback) with one well-formed request; a TypeError
\* raised by send leaves sendAsync before the handlers are attached
sendAsync(payload) ==
    /\ ~InstanceofArray(payload)
    /\ Len(cbs) < MaxCalls
    /\ sendCore(payload.method, payload.params, payload.id, "sendAsync")
    /\ cbs' = Append(cbs,
                IF lastOp'.threw THEN Dropped
                ELSE Attach(Len(calls'),
                            [call |-> lastOp'.settledCall, kind |-> lastOp'.kind,
                             value |-> lastOp'.value]))

\* error instanceof Error ? error : new Error(error)
CallbackError(error) == IF InstanceofError(error) THEN error ELSE Err(JsString(error))

\* a queued handler of callback i runs: callback(null, data) or
\* callback(error, null); thrown is what the callback raised, if it did
callbackRuns(i, thrown) ==
    /\ i \in DOMAIN cbs
    /\ cbs[i].stage \in {"then", "catch"}
    /\ cbs' = [cbs EXCEPT ![i] =
                IF cbs[i].stage = "then" /\ thrown # <<>>
                THEN [@ EXCEPT !.stage = "catch", !.arg = thrown[1], !.n = @ + 1]
                ELSE [@ EXCEPT !.stage = "done", !.arg = Undefined, !.n = @ + 1]]
    /\ lastOp' = [NoOp("callback") EXCEPT
                    !.cb = i,
                    !.error = IF cbs[i].stage = "then" THEN Null
                              ELSE CallbackError(cbs[i].arg),
                    !.value = IF cbs[i].stage = "then" THEN cbs[i].arg ELSE Null,
                    !.threw = thrown # <<>>]
    /\ UNCHANGED <<chainId, address, ready, rpcGen, promises, calls, settled,
                   inflight, hostPending>>

\* the callback returns
callbackReturns == \E i \in DOMAIN cbs : callbackRuns(i, <<>>)

\* the callback raises e
callbackThrows == \E i \in DOMAIN cbs : \E e \in CallbackThrows : callbackRuns(i, <<e>>)

(* ----------------------- collaborator completions --------------------- *)

Completion(op, out) ==
    [NoOp(op) EXCEPT !.threw = out.threw, !.settledCall = out.call,
                     !.kind = out.kind, !.value = out.value]

\* .then(data => this._resolve(payload.id, data)) of request r; a TypeError
\* thrown by _resolve leaves the .catch handler of the chain to run
collabThen(r, data) ==
    /\ r \in inflight /\ r.stage = "sent"
    /\ LET out == Resolve(promises, r.id, data) IN
        /\ promises' = out.promises
        /\ settled' = Invoke(settled, out.call)
        /\ inflight' = (inflight \ {r}) \cup
                (IF out.threw THEN {[r EXCEPT !.stage = "threw"]} ELSE {})
        /\ cbs' = Settle(cbs, out)
        /\ lastOp' = [Completion("then", out) EXCEPT !.threw = FALSE]
    /\ UNCHANGED <<chainId, address, ready, rpcGen, calls, hostPending>>

\* .catch(error => this._reject(payload.id, error)) of request r, run with
\* the collaborator's failure or with the TypeError the .then handler threw;
\* a TypeError thrown here is an unhandled rejection
collabCatch(r, error) ==
    /\ r \in inflight
    /\ LET out == Reject(promises, r.id, error) IN
        /\ promises' = out.promises
        /\ settled' = Invoke(settled, out.call)
        /\ inflight' = inflight \ {r}
        /\ cbs' = Settle(cbs, out)
        /\ lastOp' = Completion("catch", out)
    /\ UNCHANGED <<chainId, address, ready, rpcGen, calls, hostPending>>

\* the collaborator answers a request with data
collabSucceeds ==
    \E r \in inflight : \E data \in CollabResults(r.id) : collabThen(r, data)

\* the collaborator fails a request with error
collabFails ==
    \E r \in inflight : \E error \in CollabErrors :
        r.stage = "sent" /\ collabCatch(r, error)

\* the .catch handler runs after the .then handler threw
collabThenThrew ==
    \E r \in inflight : r.stage = "threw" /\ collabCatch(r, TypeError)

(* ---------------------------- host deliveries ------------------------- *)

\* _resolve(id, result) called by the host
hostResolve(id, result) ==
    LET out == Resolve(promises, id, result) IN
    /\ promises' = out.promises
    /\ settled' = Invoke(settled, out.call)
    /\ cbs' = Settle(cbs, out)
    /\ lastOp' = Completion("_resolve", out)
    /\ UNCHANGED <<chainId, address, ready, rpcGen, calls, inflight>>

\* _reject(id, error) called by the host
hostReject(id, error) ==
    LET out == Reject(promises, id, error) IN
    /\ promises' = out.promises
    /\ settled' = Invoke(settled, out.call)
    /\ cbs' = Settle(cbs, out)
    /\ lastOp' = Completion("_reject", out)
    /\ UNCHANGED <<chainId, address, ready, rpcGen, calls, inflight>>

\* the host answers message m with a result
hostResolves ==
    \E m \in hostPending : \E result \in HostResults :
        hostResolve(m.id, result) /\ hostPending' = hostPending \ {m}

\* the host answers message m with an error
hostRejects ==
    \E m \in hostPending : \E error \in HostErrors :
        hostReject(m.id, error) /\ hostPending' = hostPending \ {m}

\* a late or duplicate delivery: the host calls _resolve for an identifier
\* it holds no unanswered message of
staleResolve(id) ==
    \E result \in HostResults :
        /\ \A m \in hostPending : m.id # id
        /\ hostResolve(id, result)
        /\ UNCHANGED hostPending

\* a late or duplicate delivery: the host calls _reject
staleReject(id) ==
    \E error \in HostErrors :
        /\ \A m \in hostPending : m.id # id
        /\ hostReject(id, error)
        /\ UNCHANGED hostPending

(* ---------------------------- specifications -------------------------- *)

\* The provider with its collaborators and the host: calls of one method per
\* strategy, issued without an identifier or under the caller's identifier
\* 1, completed in any order, with reconfigurations in between and with late
\* deliveries for the identifiers 1 and 101.
CoreAddressArgs == {Undefined, Str("0xAbC")}
CoreConfigs == [address : CoreAddressArgs, chainId : {Num(1)}]
CoreMethodArgs == {Str("eth_accounts"), Str("eth_sign"), Str("eth_requestAccounts"),
                   Str("eth_newFilter"), Str("eth_foo"), Num(123)}
CoreParamsArgs == {Arr(<<>>)}
CoreIdArgs == {Undefined, Num(1)}
CoreIds == {1, 101}

Init == \E config \in CoreConfigs : constructor(config)

Next ==
    \/ \E a \in CoreAddressArgs : setAddress(a)
    \/ \E config \in CoreConfigs : setConfig(config)
    \/ \E method \in CoreMethodArgs, params \in CoreParamsArgs, id \in CoreIdArgs :
            sendInvalid(method, params, id)
    \/ \E method \in CoreMethodArgs, params \in CoreParamsArgs, id \in CoreIdArgs :
            send(method, params, id)
    \/ collabSucceeds
    \/ collabFails
    \/ collabThenThrew
    \/ hostResolves
    \/ hostRejects
    \/ \E id \in CoreIds : staleResolve(id)
    \/ \E id \in CoreIds : staleReject(id)

Spec == Init /\ [][Next]_vars

\* The provider alone: construction, reconfiguration and the first call, of
\* any method with any arguments.
DispatchInit == \E config \in Configs : constructor(config)

DispatchNext ==
    \/ \E a \in AddressArgs : setAddress(a)
    \/ \E config \in Configs : setConfig(config)
    \/ \E method \in MethodArgs, params \in ParamsArgs, id \in IdArgs :
            sendInvalid(method, params, id)
    \/ \E method \in MethodArgs, params \in ParamsArgs, id \in IdArgs :
            calls = <<>> /\ send(method, params, id)

DispatchSpec == DispatchInit /\ [][DispatchNext]_vars

\* The callback interface: sendAsync with one request or a batch, the
\* completions of the calls it makes, and the callbacks' handlers.
AsyncInit == \E config \in CoreConfigs : constructor(config)

AsyncNext ==
    \/ \E payload \in Batches : sendAsyncBatch(payload)
    \/ \E payload \in Requests : sendAsyncInvalid(payload)
    \/ \E payload \in Requests : sendAsync(payload)
    \/ collabSucceeds
    \/ collabFails
    \/ collabThenThrew
    \/ hostResolves
    \/ hostRejects
    \/ callbackReturns
    \/ callbackThrows

AsyncSpec == AsyncInit /\ [][AsyncNext]_vars

(* ------------------------------- claims ------------------------------- *)

Calls == 1..Len(calls)

\* every request made for call c was answered and its handlers have run
Answered(c) ==
    /\ \A r \in inflight : r.call # c
    /\ \A m \in hostPending : m.call # c

\* the step is the host calling _resolve or _reject with identifier id
HostCompletes(id) ==
    \/ \E result \in HostResults : hostResolve(id, result)
    \/ \E error \in HostErrors : hostReject(id, error)

\* lastOp is a send of method m that passed validation
SentMethod(m) ==
    /\ lastOp.op = "send"
    /\ lastOp.returned # "error"
    /\ lastOp.method = Str(m)

\* the call the last send registered
LastCall == Len(calls)

\* C1: once every request made for a call that returned a promise has been
\* answered, one continuation of that promise has been invoked exactly once.
C1_SettledExactlyOnce ==
    \A c \in Calls : (calls[c].returned /\ Answered(c)) => settled[c] = 1

\* C2: _resolve or _reject called for an identifier that has no entry in the
\* table invokes no continuation, raises nothing and leaves the table as it was.
C2_NoEntryIsNoOp ==
    [][\A id \in CoreIds :
        (id \notin DOMAIN promises /\ HostCompletes(id))
            => /\ ~lastOp'.threw
               /\ lastOp'.settledCall = 0
               /\ promises' = promises]_vars

\* C3: every call that returned a promise and is not settled yet holds its
\* own continuations in the table under its identifier.
C3_OutstandingCallKeepsEntry ==
    \A c \in Calls :
        (calls[c].returned /\ settled[c] = 0)
            => (calls[c].id \in DOMAIN promises /\ promises[calls[c].id] = c)

\* an entry registered under id was settled and removed
SettledBefore(id) ==
    /\ id \notin DOMAIN promises
    /\ \E c \in Calls : calls[c].id = id /\ settled[c] >= 1

\* C4: the continuations of a call are invoked at most once, and a further
\* _resolve or _reject for an identifier already settled invokes nothing and
\* has no other effect.
C4_SecondCompletionNoEffect ==
    [][/\ \A c \in 1..Len(settled') : settled'[c] <= 1
       /\ \A id \in CoreIds :
            (SettledBefore(id) /\ HostCompletes(id))
                => /\ settled' = settled
                   /\ promises' = promises
                   /\ ~lastOp'.threw]_vars

GatedMethods == BridgeMethods \ {"eth_requestAccounts"}

\* C5: a gated bridge call sent while ready is false posts nothing, is
\* rejected at once with the not-ready error and leaves no entry behind;
\* eth_requestAccounts is posted under requestAccounts, ready or not, and
\* is not rejected.
C5_BridgeGate ==
    /\ \A m \in GatedMethods :
        (SentMethod(m) /\ ~ready)
            => /\ lastOp.posted = <<>>
               /\ \A h \in hostPending : h.call # LastCall
               /\ lastOp.kind = "reject"
               /\ lastOp.settledCall = LastCall
               /\ lastOp.value = Err("provider is not ready")
               /\ calls[LastCall].id \notin DOMAIN promises
    /\ SentMethod("eth_requestAccounts")
            => /\ Len(lastOp.posted) = 1
               /\ lastOp.posted[1].name = "requestAccounts"
               /\ lastOp.posted[1].id = calls[LastCall].id
               /\ \E h \in hostPending : h.call = LastCall
               /\ lastOp.kind = "none"
               /\ settled[LastCall] = 0

C5_Witness ==
    /\ SentMethod("eth_sendTransaction")
    /\ ~ready
    /\ lastOp.kind = "reject"
    /\ lastOp.posted = <<>>

\* C6: setAddress and setConfig leave the table, the continuations and the
\* outstanding requests as they were, and the answer to a request made of an
\* earlier RPCServer or FilterMgr still settles the call it was made for.
C6_ReconfigureKeepsPending ==
    [][/\ lastOp'.op \in {"setAddress", "setConfig"}
            => /\ promises' = promises
               /\ settled' = settled
               /\ inflight' = inflight
               /\ hostPending' = hostPending
       /\ \A r \in inflight :
            (/\ r.gen < rpcGen
             /\ r.id \in DOMAIN promises
             /\ promises[r.id] = r.call
             /\ \A q \in inflight' : q.call # r.call)
                => /\ settled'[r.call] = settled[r.call] + 1
                   /\ lastOp'.settledCall = r.call
                   /\ r.id \notin DOMAIN promises']_vars

C6_Witness ==
    /\ lastOp.op = "setConfig"
    /\ \E r \in inflight :
        /\ r.gen < rpcGen
        /\ r.id \in DOMAIN promises
        /\ promises[r.id] = r.call
        /\ settled[r.call] = 0

\* C7: after the constructor and after every setAddress and setConfig, with
\* an absent, an empty or a non-empty address argument, ready is true
\* exactly when the stored address is not empty.
C7_ReadyIffAddress ==
    lastOp.op \in {"constructor", "setAddress", "setConfig"}
        => /\ ready <=> (address # "")
           /\ ready <=> (lastOp.arg \notin {Undefined, Str("")})

C7_Witness ==
    /\ lastOp.op = "setAddress"
    /\ lastOp.arg = Str("")
    /\ ~ready
    /\ rpcGen > 0

\* the method is no non-empty string, or the params are no array
Malformed(method, params) ==
    \/ method.type # "string"
    \/ method.str = ""
    \/ params.type # "array"

\* C8: a send with a malformed method or malformed params returns an Error
\* value, leaves the table and the registered calls as they were, and
\* reaches neither the host, the RPC server nor the filter manager.
C8_MalformedSendRegistersNothing ==
    [][(lastOp'.op = "send" /\ Malformed(lastOp'.method, lastOp'.params))
        => /\ lastOp'.returned = "error"
           /\ InstanceofError(lastOp'.error)
           /\ ~lastOp'.threw
           /\ promises' = promises
           /\ calls' = calls
           /\ settled' = settled
           /\ hostPending' = hostPending
           /\ inflight' = inflight
           /\ lastOp'.posted = <<>>
           /\ lastOp'.forwarded = <<>>]_vars

C8_Witness ==
    /\ lastOp.op = "send"
    /\ lastOp.method = Str("eth_foo")
    /\ lastOp.params = Str("not-an-array")
    /\ lastOp.returned = "error"
    /\ DOMAIN promises # {}

\* no character of s is an upper-case letter
IsLowerCase(s) ==
    \A i \in 1..Len(s) : \A k \in 1..Len(UpperChars) : SubSeq(s, i, i) # UpperChars[k]

\* C9: send("eth_accounts", []) resolves with the empty list when the
\* provider is not ready, and otherwise with the list of the one current
\* address, which is in lower case.
C9_AccountsLowerCase ==
    SentMethod("eth_accounts")
        => /\ lastOp.kind = "resolve"
           /\ lastOp.settledCall = LastCall
           /\ IsLowerCase(address)
           /\ ready <=> (address # "")
           /\ lastOp.value.result =
                (IF ready THEN Arr(<<Str(address)>>) ELSE Arr(<<>>))

C9_Witness ==
    /\ SentMethod("eth_accounts")
    /\ lastOp.kind = "resolve"
    /\ lastOp.value.result = Arr(<<Str("0xabc")>>)

\* C10: send("net_version", []) resolves with the decimal string of chainId,
\* and with null when chainId is 0 or absent.
C10_NetVersion ==
    SentMethod("net_version")
        => /\ lastOp.kind = "resolve"
           /\ lastOp.value.result =
                (IF Truthy(chainId) THEN Str(NumToString(chainId.num, 10)) ELSE Null)

\* C13: setAddress emits accountsChanged once, after address and ready were
\* updated, with the list of the one address when the new address is not
\* empty and with the empty list when it is empty.
C13_AccountsChangedPayload ==
    lastOp.op = "setAddress"
        => lastOp.emitted =
            <<Event("accountsChanged",
                    IF address # "" THEN Arr(<<Str(address)>>) ELSE Arr(<<>>))>>

\* C16: the table holds an entry for an identifier exactly while a call
\* registered under that identifier is unsettled.
C16_EntryWhileUnsettled ==
    \A id \in DOMAIN promises \cup {calls[c].id : c \in Calls} :
        (id \in DOMAIN promises)
            <=> (\E c \in Calls : calls[c].id = id /\ settled[c] = 0)

\* an argument handed over with the forwarded request f is an object whose
\* id is the value id
CarriesId(f, id) ==
    \E k \in 1..Len(f.args) :
        /\ f.args[k].type = "object"
        /\ "id" \in DOMAIN f.args[k]
        /\ f.args[k].id = id

\* C19: a call sent with an identifier, 0 included, is registered under that
\* identifier, posts and forwards it, and is resolved with an envelope that
\* carries it; an identifier is generated only when none was supplied.
C19_SuppliedIdKept ==
    (lastOp.op = "send" /\ lastOp.returned = "promise")
        => /\ lastOp.argId # Undefined
                => /\ calls[LastCall].id = lastOp.argId.num
                   /\ \A i \in 1..Len(lastOp.posted) :
                        lastOp.posted[i].id = lastOp.argId.num
                   /\ \A i \in 1..Len(lastOp.forwarded) :
                        CarriesId(lastOp.forwarded[i], lastOp.argId)
                   /\ lastOp.kind = "resolve" => lastOp.value.id = lastOp.argId
           /\ lastOp.argId = Undefined => calls[LastCall].id \in GenIds

\* every identifier a call was registered under, and the late deliveries' ones
Ids == {calls[c].id : c \in Calls} \cup CoreIds

\* what lastOp names a run of _resolve or _reject
CompletionOps == {"_resolve", "_reject", "then", "catch"}

\* the step is the .then or the .catch handler of request r
CollabCompletes(r) ==
    \/ /\ lastOp'.op = "then"
       /\ \E data \in CollabResults(r.id) : collabThen(r, data)
    \/ /\ lastOp'.op = "catch"
       /\ \E error \in CollabErrors \cup {TypeError} : collabCatch(r, error)

\* the step is the host calling _resolve or _reject with identifier id
HostDelivers(id) ==
    \/ /\ lastOp'.op = "_resolve"
       /\ \E result \in HostResults : hostResolve(id, result)
    \/ /\ lastOp'.op = "_reject"
       /\ \E error \in HostErrors : hostReject(id, error)

\* the value a settling completion under id may hand to a continuation
CompletionValues(id) ==
    {ResolveData(id, v) : v \in CollabResults(id) \cup HostResults}
        \cup {RejectValue(e) : e \in CollabErrors \cup HostErrors \cup {TypeError}}

\* the step settled no call but the one registered under id, with a value
\* made from a completion under id, and left every other entry in place
SettlesOnly(id) ==
    /\ \A k \in DOMAIN promises \ {id} :
            k \in DOMAIN promises' /\ promises'[k] = promises[k]
    /\ \A c \in Calls : calls[c].id # id => settled'[c] = settled[c]
    /\ lastOp'.settledCall # 0
        => /\ calls[lastOp'.settledCall].id = id
           /\ promises[id] = lastOp'.settledCall
           /\ lastOp'.value \in CompletionValues(id)
           /\ lastOp'.value.type = "object" => lastOp'.value.id = Num(id)

\* C14: a completion under an identifier settles no call but the one
\* registered under that identifier, hands it a value made from that
\* completion, and neither settles nor removes the entry of a call registered
\* under another identifier, in whatever order completions arrive. (A step
\* that invokes no continuation and leaves the table as it was settles and
\* removes nothing, whatever its identifier.)
C14_CompletionSettlesOwnId ==
    [][(promises' # promises \/ settled' # settled)
        => /\ lastOp'.op \in {"_resolve", "_reject"}
                => \A id \in Ids : HostDelivers(id) => SettlesOnly(id)
           /\ lastOp'.op \in {"then", "catch"}
                => \A r \in inflight : CollabCompletes(r) => SettlesOnly(r.id)]_vars

\* two calls outstanding at once under distinct identifiers, the second
\* completed first
C14_Witness ==
    /\ Len(calls) = 2
    /\ calls[1].id # calls[2].id
    /\ lastOp.op \in CompletionOps
    /\ lastOp.settledCall = 2
    /\ settled = <<0, 1>>
    /\ ~Answered(1)
    /\ calls[1].id \in DOMAIN promises
    /\ promises[calls[1].id] = 1

\* v is an object carrying a result field
CarriesResult(v) == v.type = "object" /\ "result" \in DOMAIN v

\* the step runs _resolve(id, v)
Resolves(id, v) ==
    \/ hostResolve(id, v)
    \/ \E r \in inflight : r.id = id /\ collabThen(r, v)

\* C15: _resolve(id, v) for a pending id settles the call with the envelope
\* {jsonrpc: "2.0", id, result}, where result is the inner result of a v
\* that carries a result field, whatever that inner result is, and v itself
\* otherwise, null included.
C15_ResolveEnvelope ==
    [][\A id \in DOMAIN promises :
        \A v \in CollabResults(id) \cup HostResults :
            Resolves(id, v)
                => /\ lastOp'.kind = "resolve"
                   /\ lastOp'.settledCall = promises[id]
                   /\ lastOp'.value =
                        Obj(Str("2.0"), Num(id),
                            IF CarriesResult(v) THEN v.result ELSE v)]_vars

\* the step is the failure of request r, made of the RPC server or a filter
\* manager, with the value e
FailsWith(r, e) == r.stage = "sent" /\ collabCatch(r, e)

\* C18: when a request made of the RPC server or a filter manager fails with
\* a value e, the call the request was made for is rejected with e itself,
\* whether e is an Error or not.
C18_RejectedWithSameValue ==
    [][\A r \in inflight : \A e \in CollabErrors :
        FailsWith(r, e)
            => /\ lastOp'.kind = "reject"
               /\ lastOp'.settledCall = r.call
               /\ settled'[r.call] = settled[r.call] + 1
               /\ lastOp'.value = e]_vars

\* lastOp is a send that passed validation
SentWellFormed == lastOp.op = "send" /\ lastOp.returned # "error"

\* C17: a well-formed call is handled by one strategy. A local method only
\* resolves the call within send; a bridge method only calls postMessage
\* once, under its handler name and with the call's identifier; a filter
\* method only starts one filter manager operation; any other method only
\* forwards the payload once to the RPC server and gets no local error.
C17_OneStrategy ==
    SentWellFormed =>
        LET m == lastOp.method.str
            n == Len(lastOp.bridged) + Len(lastOp.forwarded)
                    + (IF lastOp.kind = "resolve" THEN 1 ELSE 0)
        IN  /\ n = 1
            /\ m \in LocalMethods
                => /\ lastOp.kind = "resolve"
                   /\ lastOp.settledCall = LastCall
                   /\ ~lastOp.threw
            /\ m \in BridgeMethods
                => /\ Len(lastOp.bridged) = 1
                   /\ lastOp.bridged[1].handler = Handler(m)
                   /\ lastOp.bridged[1].id = calls[LastCall].id
                   /\ Len(lastOp.posted) <= 1
            /\ m \in FilterMethods
                => /\ Len(lastOp.forwarded) = 1
                   /\ lastOp.forwarded[1].to = "filter"
                   /\ lastOp.forwarded[1].op = FilterOp(m)
                   /\ lastOp.kind = "none"
            /\ m \notin LocalMethods \cup BridgeMethods \cup FilterMethods
                => /\ Len(lastOp.forwarded) = 1
                   /\ lastOp.forwarded[1].to = "rpc"
                   /\ lastOp.forwarded[1].args =
                        <<Payload(calls[LastCall].id, m, lastOp.params)>>
                   /\ lastOp.kind = "none"
                   /\ ~lastOp.threw

\* C11: sendAsync with an array of well-formed requests sends each of them
\* through send, raises nothing, and leaves the callback held by a handler
\* that will invoke it once.
C11_BatchCallback ==
    [][(lastOp'.op = "sendAsync" /\ InstanceofArray(lastOp'.arg))
        => /\ ~lastOp'.threw
           /\ Len(calls') = Len(calls) + Len(lastOp'.arg.items)
           /\ Len(cbs') = Len(cbs) + 1
           /\ cbs'[Len(cbs')].stage # "dropped"]_vars

\* C12: the callback given to sendAsync with one well-formed request is
\* invoked at most once, only after the call was settled, and once when its
\* handlers are done: with (null, envelope) or with (e, null), e an Error.
C12_CallbackOnce ==
    /\ \A i \in DOMAIN cbs :
        cbs[i].call # 0
            => /\ cbs[i].n <= 1
               /\ cbs[i].stage = "done" => cbs[i].n = 1
               /\ cbs[i].n >= 1 => settled[cbs[i].call] = 1
    /\ lastOp.op = "callback"
        => \/ /\ lastOp.error = Null
              /\ lastOp.value.type = "object"
              /\ lastOp.value.id = Num(calls[cbs[lastOp.cb].call].id)
           \/ /\ InstanceofError(lastOp.error)
              /\ lastOp.value = Null

\* C20: sendAsync with one malformed request raises nothing and leaves the
\* callback held by a handler that will invoke it once with the validation
\* error and null.
C20_MalformedAsyncCallback ==
    (/\ lastOp.op = "sendAsync"
     /\ ~InstanceofArray(lastOp.arg)
     /\ Malformed(lastOp.method, lastOp.params))
        => /\ ~lastOp.threw
           /\ cbs[Len(cbs)].stage = "catch"
           /\ cbs[Len(cbs)].arg = ValidationError(lastOp.method, lastOp.params)

====
